---- MODULE Spec2Model ----
(***************************************************************************)
(* Music streaming of the audio module (examples/ex03b_input_mouse.c):     *)
(* the process-wide "current music" record, the OpenAL source with its     *)
(* queue of two buffers, and the stb_vorbis decoder that feeds them.       *)
(*                                                                         *)
(* Every C function is an operator from a world record (the values of all  *)
(* variables) to a world record; an action applies one public function to  *)
(* the current world.  OpenAL and stb_vorbis are modelled by what their    *)
(* calls do to the source, the buffers and the decoder position.  Every    *)
(* library call of the last operation is recorded in `calls`, with `ok`    *)
(* telling whether the handle it was given was usable.                     *)
(*                                                                         *)
(* Three specifications: Spec is the music stream and the audio device;    *)
(* SpecSound is the sound loaders (LoadSound, LoadSoundFromRES) reading    *)
(* the file chosen in its initial state; SpecFill is one run of the fill   *)
(* loop of BufferMusicStream against any values the decoder can return.    *)
(***************************************************************************)
EXTENDS Integers, Sequences, FiniteSets, TLC

VARIABLES
    musicEnabled,   \* bool musicEnabled
    currentMusic,   \* static Music currentMusic
    alContext,      \* an OpenAL context is current (InitAudioDevice .. CloseAudioDevice)
    alSources,      \* live OpenAL sources: name -> [state, queue, processed]
    alBuffers,      \* live OpenAL buffers: name -> samples uploaded with alBufferData
    alError,        \* the context's pending error (alGetError clears it)
    vorbis,         \* the stb_vorbis decoder: [open, channels, frames, rate, pos]
    openDecoders,   \* number of stb_vorbis decoders opened and not closed
    calls,          \* library calls made by the last operation, in order
    log,            \* TraceLog messages of the last operation, in order
    ret,            \* value returned by the last operation ("void" if none)
    lastCall,       \* name of the last operation
    lastFile,       \* file name and file contents the last operation was given
    disk,           \* the sound file the loaders find on disk
    reads,          \* record headers the last operation read from a resource file
    fillRun         \* one run of the fill loop of BufferMusicStream

vars ==
    <<musicEnabled, currentMusic, alContext, alSources, alBuffers, alError,
      vorbis, openDecoders, calls, log, ret, lastCall, lastFile,
      disk, reads, fillRun>>

----------------------------------------------------------------------------
(* Program constants and bounds *)

MUSIC_STREAM_BUFFERS ==
    2

\* 4096*8 in the source; scaled down so that a stream spans several buffers
MUSIC_BUFFER_SIZE ==
    4

\* longest stream, in frames (samples per channel)
MaxFrames ==
    5

\* names the audio library can hand out for sources
MaxSourceNames ==
    1

SourceNames ==
    1..MaxSourceNames

ChannelCounts ==
    {1, 2}

SampleRates ==
    {44100}

\* file names the caller passes: "a.ogg", "a.ogg.w", "ogg", ".ogg", "a.w"
FileNames ==
    { <<"a", ".", "o", "g", "g">>,
      <<"a", ".", "o", "g", "g", ".", "w">>,
      <<"o", "g", "g">>,
      <<".", "o", "g", "g">>,
      <<"a", ".", "w">> }

\* what stb_vorbis finds under a name: nothing it can open, or a stream
NoFile ==
    [exists |-> FALSE, channels |-> 0, frames |-> 0, rate |-> 0]

FileContents ==
    {NoFile} \cup
    [exists : {TRUE}, channels : ChannelCounts, frames : 0..MaxFrames, rate : SampleRates]

----------------------------------------------------------------------------
(* Helpers *)

Min(a, b) ==
    IF a < b THEN a ELSE b

EmptyFn ==
    [n \in {} |-> 0]

Without(f, n) ==
    [x \in (DOMAIN f) \ {n} |-> f[x]]

With(f, n, v) ==
    [x \in (DOMAIN f) \cup {n} |-> IF x = n THEN v ELSE f[x]]

SeqRange(s) ==
    {s[i] : i \in 1..Len(s)}

\* the lowest name above 0 that is not in use
LowestFree(used) ==
    CHOOSE n \in 1..(Cardinality(used) + 1) :
        n \notin used /\ \A m \in 1..(n - 1) : m \in used

\* the world: the value of every variable
World ==
    [musicEnabled |-> musicEnabled, currentMusic |-> currentMusic,
     alContext |-> alContext, alSources |-> alSources, alBuffers |-> alBuffers,
     alError |-> alError, vorbis |-> vorbis, openDecoders |-> openDecoders,
     calls |-> calls, log |-> log, ret |-> ret, reads |-> reads]

Call(w, f, ok) ==
    [w EXCEPT !.calls = Append(@, [f |-> f, ok |-> ok])]

TraceLog(w, level, msg) ==
    [w EXCEPT !.log = Append(@, [level |-> level, msg |-> msg])]

\* a call on the audio library that fails leaves an error pending in the
\* context (without a context there is nothing to leave it in)
AlFail(w, f) ==
    Call([w EXCEPT !.alError = w.alContext], f, FALSE)

SourceOk(w, s) ==
    w.alContext /\ s \in DOMAIN w.alSources

BufferOk(w, b) ==
    w.alContext /\ b \in DOMAIN w.alBuffers

BufferQueued(w, b) ==
    \E s \in DOMAIN w.alSources : b \in SeqRange(w.alSources[s].queue)

----------------------------------------------------------------------------
(* GetExtension (utils.c): the text after the last dot, "" without one *)

RECURSIVE LastDot(_, _)
LastDot(name, i) ==
    IF i = 0 THEN 0
    ELSE IF name[i] = "." THEN i
    ELSE LastDot(name, i - 1)

GetExtension(name) ==
    LET dot == LastDot(name, Len(name))
    IN  IF dot = 0 \/ dot = 1 THEN << >>
        ELSE SubSeq(name, dot + 1, Len(name))

OggExt ==
    <<"o", "g", "g">>

----------------------------------------------------------------------------
(* OpenAL *)

alGenSources(w, name) ==
    IF w.alContext /\ name \notin DOMAIN w.alSources
    THEN Call([w EXCEPT
                 !.alSources = With(@, name,
                     [state |-> "initial", queue |-> << >>, processed |-> 0]),
                 !.currentMusic.source = name],
              "alGenSources", TRUE)
    ELSE AlFail(w, "alGenSources")

alGenBuffers(w, names) ==
    IF w.alContext /\ names[1] # names[2]
       /\ names[1] \notin DOMAIN w.alBuffers /\ names[2] \notin DOMAIN w.alBuffers
    THEN Call([w EXCEPT
                 !.alBuffers = With(With(@, names[1], << >>), names[2], << >>),
                 !.currentMusic.buffers = names],
              "alGenBuffers", TRUE)
    ELSE AlFail(w, "alGenBuffers")

alSourcef(w, s, f) ==
    IF SourceOk(w, s) THEN Call(w, f, TRUE) ELSE AlFail(w, f)

\* a buffer that is queued on a source cannot be given new data
alBufferData(w, b, pcm) ==
    IF BufferOk(w, b) /\ ~BufferQueued(w, b)
    THEN Call([w EXCEPT !.alBuffers[b] = pcm], "alBufferData", TRUE)
    ELSE AlFail(w, "alBufferData")

alSourceQueueBuffers(w, s, bufs) ==
    IF SourceOk(w, s) /\ \A i \in 1..Len(bufs) : BufferOk(w, bufs[i])
    THEN Call([w EXCEPT !.alSources[s].queue = @ \o bufs],
              "alSourceQueueBuffers", TRUE)
    ELSE AlFail(w, "alSourceQueueBuffers")

\* only a processed buffer can be unqueued, from the head of the queue;
\* the result is the world and the name written to *buffer
alSourceUnqueueBuffers(w, s, buffer) ==
    IF SourceOk(w, s) /\ w.alSources[s].processed > 0
    THEN [w |-> Call([w EXCEPT !.alSources[s].queue = Tail(@),
                               !.alSources[s].processed = @ - 1],
                     "alSourceUnqueueBuffers", TRUE),
          buffer |-> Head(w.alSources[s].queue)]
    ELSE [w |-> AlFail(w, "alSourceUnqueueBuffers"), buffer |-> buffer]

\* playing starts the queue from its head, or resumes a paused source;
\* a source with nothing queued ends stopped
alSourcePlay(w, s) ==
    IF SourceOk(w, s)
    THEN LET src == w.alSources[s]
             new == IF src.queue = << >>
                    THEN [src EXCEPT !.state = "stopped"]
                    ELSE IF src.state = "paused"
                    THEN [src EXCEPT !.state = "playing"]
                    ELSE [src EXCEPT !.state = "playing", !.processed = 0]
         IN  Call([w EXCEPT !.alSources[s] = new], "alSourcePlay", TRUE)
    ELSE AlFail(w, "alSourcePlay")

alSourcePause(w, s) ==
    IF SourceOk(w, s)
    THEN Call([w EXCEPT !.alSources[s].state =
                            IF @ = "playing" THEN "paused" ELSE @],
              "alSourcePause", TRUE)
    ELSE AlFail(w, "alSourcePause")

\* stopping marks every queued buffer processed; legal no-op on an initial source
alSourceStop(w, s) ==
    IF SourceOk(w, s)
    THEN LET src == w.alSources[s]
             new == IF src.state = "initial" THEN src
                    ELSE [src EXCEPT !.state = "stopped",
                                     !.processed = Len(src.queue)]
         IN  Call([w EXCEPT !.alSources[s] = new], "alSourceStop", TRUE)
    ELSE AlFail(w, "alSourceStop")

\* deleting a source stops it and releases its queue
alDeleteSources(w, s) ==
    IF SourceOk(w, s)
    THEN Call([w EXCEPT !.alSources = Without(@, s)], "alDeleteSources", TRUE)
    ELSE AlFail(w, "alDeleteSources")

\* all or nothing: every name must be a live buffer that no source holds
alDeleteBuffers(w, bufs) ==
    IF \A i \in 1..Len(bufs) : BufferOk(w, bufs[i]) /\ ~BufferQueued(w, bufs[i])
    THEN Call([w EXCEPT !.alBuffers =
                   [b \in (DOMAIN @) \ SeqRange(bufs) |-> @[b]]],
              "alDeleteBuffers", TRUE)
    ELSE AlFail(w, "alDeleteBuffers")

\* alGetSourcei: the value is written only when the call succeeds, so the
\* caller's variable keeps `dflt` otherwise
alGetSourcei(w, s, param, dflt) ==
    IF SourceOk(w, s)
    THEN [w |-> Call(w, param, TRUE),
          value |-> CASE param = "AL_BUFFERS_QUEUED" -> Len(w.alSources[s].queue)
                      [] param = "AL_BUFFERS_PROCESSED" -> w.alSources[s].processed
                      [] OTHER -> w.alSources[s].state]
    ELSE [w |-> AlFail(w, param), value |-> dflt]

\* alGetError returns the pending error and clears it; without a context it
\* reports an error
alGetError(w) ==
    [w |-> Call([w EXCEPT !.alError = FALSE], "alGetError", w.alContext),
     error |-> w.alError \/ ~w.alContext]

----------------------------------------------------------------------------
(* stb_vorbis *)

ClosedVorbis ==
    [open |-> FALSE, channels |-> 0, frames |-> 0, rate |-> 0, pos |-> 0]

stb_vorbis_open_filename(w, content) ==
    IF content.exists
    THEN Call([w EXCEPT
                 !.vorbis = [open |-> TRUE, channels |-> content.channels,
                             frames |-> content.frames, rate |-> content.rate,
                             pos |-> 0],
                 !.openDecoders = @ + 1,
                 !.currentMusic.stream = "stream"],
              "stb_vorbis_open_filename", TRUE)
    ELSE Call([w EXCEPT !.currentMusic.stream = "NULL"],
              "stb_vorbis_open_filename", TRUE)

stb_vorbis_close(w) ==
    IF w.vorbis.open
    THEN Call([w EXCEPT !.vorbis = ClosedVorbis, !.openDecoders = @ - 1],
              "stb_vorbis_close", TRUE)
    ELSE Call(w, "stb_vorbis_close", FALSE)

stb_vorbis_seek_start(w) ==
    IF w.vorbis.open
    THEN Call([w EXCEPT !.vorbis.pos = 0], "stb_vorbis_seek_start", TRUE)
    ELSE Call(w, "stb_vorbis_seek_start", FALSE)

stb_vorbis_stream_length_in_samples(w) ==
    [w |-> Call(w, "stb_vorbis_stream_length_in_samples", w.vorbis.open),
     value |-> w.vorbis.frames]

\* decodes up to num_shorts/channels frames from the current position; the
\* samples are named by their index in the interleaved stream
stb_vorbis_get_samples_short_interleaved(w, channels, num_shorts) ==
    LET len == IF channels > 0 THEN num_shorts \div channels ELSE 0
        n   == IF w.vorbis.open THEN Min(len, w.vorbis.frames - w.vorbis.pos) ELSE 0
        from == w.vorbis.pos * w.vorbis.channels
    IN  [w |-> Call([w EXCEPT !.vorbis.pos = @ + n],
                    "stb_vorbis_get_samples_short_interleaved", w.vorbis.open),
         value |-> n,
         samples |-> [i \in 1..(n * w.vorbis.channels) |-> from + i - 1]]

----------------------------------------------------------------------------
(* Module functions.  A C statement sequence  s1; s2; s3  on the world w is
   the composition  s3(s2(s1(w)));  a local variable that is read more than
   once is the parameter of the operator that models the statements reading
   it. *)

\* request that asks for a whole buffer whatever the array holds
FillRequest_Whole(size) ==
    MUSIC_BUFFER_SIZE

\* BufferMusicStream, line 688: the decoder is asked for at most what is
\* left of the array
FillRequest(size) ==
    MUSIC_BUFFER_SIZE - size

\* BufferMusicStream, lines 686-692: the while loop that decodes into
\* pcm + size until the array is full or the decoder returns nothing;
\* r is what stb_vorbis_get_samples_short_interleaved returned
RECURSIVE FillLoop(_, _, _)
RECURSIVE FillStep(_, _, _, _)
FillStep(r, channels, size, pcm) ==
    IF r.value > 0
    THEN FillLoop(r.w, size + r.value * channels, pcm \o r.samples)
    ELSE [w |-> r.w, size |-> size, pcm |-> pcm]

FillLoop(w, size, pcm) ==
    IF size < MUSIC_BUFFER_SIZE
    THEN FillStep(stb_vorbis_get_samples_short_interleaved(
                      w, w.currentMusic.channels, FillRequest(size)),
                  w.currentMusic.channels, size, pcm)
    ELSE [w |-> w, size |-> size, pcm |-> pcm]

\* BufferMusicStream, lines 686-692, with the values the decoder returns
\* given (0 once they are used up): the trace has, for every call of the
\* decoder, the size before it, the maximum asked for and the value returned
RECURSIVE FillTrace(_, _, _, _)
RECURSIVE FillTraceStep(_, _, _, _, _)
FillTraceStep(channels, returns, size, trace, r) ==
    IF r > 0
    THEN FillTrace(channels, returns, size + r * channels,
                   Append(trace, [size |-> size, asked |-> FillRequest(size), got |-> r]))
    ELSE [size |-> size,
          trace |-> Append(trace, [size |-> size, asked |-> FillRequest(size), got |-> r])]

FillTrace(channels, returns, size, trace) ==
    IF size < MUSIC_BUFFER_SIZE
    THEN FillTraceStep(channels,
                       IF returns = << >> THEN << >> ELSE Tail(returns),
                       size, trace,
                       IF returns = << >> THEN 0 ELSE Head(returns))
    ELSE [size |-> size, trace |-> trace]

\* BufferMusicStream, lines 684-695: if (musicEnabled) { fill; TraceLog }
FillPcm(w) ==
    IF w.musicEnabled
    THEN [FillLoop(w, 0, << >>) EXCEPT
             !.w = TraceLog(@, "DEBUG", "Streaming music data to buffer")]
    ELSE [w |-> w, size |-> 0, pcm |-> << >>]

\* BufferMusicStream, lines 697-709: f is the pcm array and its size
UploadPcm(f, buffer) ==
    IF f.size > 0
    THEN [w |-> [alBufferData(f.w, buffer, f.pcm) EXCEPT
                    !.currentMusic.totalSamplesLeft = @ - f.size],
          active |-> TRUE]
    ELSE [w |-> TraceLog(f.w, "WARNING", "No more data obtained from stream"),
          active |-> FALSE]

\* Fill music buffers with new data from music stream; the result is the
\* world and the value returned
BufferMusicStream(w, buffer) ==
    UploadPcm(FillPcm(w), buffer)

\* Empty music buffers
RECURSIVE EmptyLoop(_, _, _)
EmptyLoop(w, queued, buffer) ==
    IF queued > 0
    THEN LET u == alSourceUnqueueBuffers(w, w.currentMusic.source, buffer)
         IN  EmptyLoop(u.w, queued - 1, u.buffer)
    ELSE w

EmptyMusicStream(w) ==
    LET q == alGetSourcei(w, w.currentMusic.source, "AL_BUFFERS_QUEUED", 0)
    IN  EmptyLoop(q.w, q.value, 0)

\* release that leaves the buffers queued on the source
ReleaseMusic_NoEmpty(w) ==
    stb_vorbis_close(
        alDeleteBuffers(
            alDeleteSources(alSourceStop(w, w.currentMusic.source),
                            w.currentMusic.source),
            w.currentMusic.buffers))

\* StopMusicStream, lines 614-621
ReleaseMusic(w) ==
    stb_vorbis_close(
        alDeleteBuffers(
            alDeleteSources(
                EmptyMusicStream(alSourceStop(w, w.currentMusic.source)),
                w.currentMusic.source),
            w.currentMusic.buffers))

\* StopMusicStream without the musicEnabled test
StopMusicStream_Unguarded(w) ==
    [ReleaseMusic(w) EXCEPT !.musicEnabled = FALSE]

\* Stop music playing (close stream)
StopMusicStream(w) ==
    [(IF w.musicEnabled THEN ReleaseMusic(w) ELSE w) EXCEPT !.musicEnabled = FALSE]

\* OpenStream that opens the new stream over the current music
OpenStream_NoStop(w, content) ==
    stb_vorbis_open_filename(w, content)

\* PlayMusicStream, lines 556-560: stop current music, clean buffers, unload
\* current stream, then open the audio stream
OpenStream(w, content) ==
    stb_vorbis_open_filename(StopMusicStream(w), content)

\* PlayMusicStream, lines 565-579: get file info, loop by default
SetStreamInfo(w) ==
    [w EXCEPT !.currentMusic.channels = w.vorbis.channels,
              !.currentMusic.sampleRate = w.vorbis.rate,
              !.currentMusic.format = IF w.vorbis.channels = 2
                                      THEN "AL_FORMAT_STEREO16"
                                      ELSE "AL_FORMAT_MONO16",
              !.currentMusic.loop = TRUE,
              !.musicEnabled = TRUE]

\* PlayMusicStream, lines 584-587
SetSourceDefaults(w) ==
    alSourcef(alSourcef(alSourcef(alSourcef(w,
        w.currentMusic.source, "AL_PITCH"),
        w.currentMusic.source, "AL_GAIN"),
        w.currentMusic.source, "AL_POSITION"),
        w.currentMusic.source, "AL_VELOCITY")

\* PlayMusicStream, lines 594-595: the values BufferMusicStream returns are
\* not used
FillFirstBuffer(w) ==
    BufferMusicStream(w, w.currentMusic.buffers[1]).w

FillSecondBuffer(w) ==
    BufferMusicStream(w, w.currentMusic.buffers[2]).w

\* PlayMusicStream, lines 598-599
QueueAndPlay(w) ==
    alSourcePlay(
        alSourceQueueBuffers(w, w.currentMusic.source, w.currentMusic.buffers),
        w.currentMusic.source)

\* currentMusic.totalSamplesLeft = length in samples * channels (lines 603,
\* 754); l is what stb_vorbis_stream_length_in_samples returned
StoreTotalSamples(l) ==
    [l.w EXCEPT !.currentMusic.totalSamplesLeft = l.value * l.w.currentMusic.channels]

SetTotalSamplesLeft(w) ==
    StoreTotalSamples(stb_vorbis_stream_length_in_samples(w))

\* PlayMusicStream, lines 565-603: the stream is open; newSource and
\* newBuffers are the names alGenSources and alGenBuffers hand out
StartStream(w, newSource, newBuffers) ==
    SetTotalSamplesLeft(
        QueueAndPlay(
            FillSecondBuffer(
                FillFirstBuffer(
                    alGenBuffers(
                        SetSourceDefaults(alGenSources(SetStreamInfo(w), newSource)),
                        newBuffers)))))

\* PlayMusicStream, lines 562-604: w is the world after the open
StartOrWarn(w, newSource, newBuffers) ==
    IF w.currentMusic.stream = "NULL"
    THEN TraceLog(w, "WARNING", "Could not open ogg audio file")
    ELSE StartStream(w, newSource, newBuffers)

\* PlayMusicStream that stops the current music before it looks at the name
PlayMusicStream_StopFirst(w, fileName, content, newSource, newBuffers) ==
    IF GetExtension(fileName) = OggExt
    THEN StartOrWarn(OpenStream(w, content), newSource, newBuffers)
    ELSE TraceLog(StopMusicStream(w), "WARNING", "Music extension not recognized")

\* PlayMusicStream that starts the stream without testing the handle
PlayMusicStream_NoNullCheck(w, fileName, content, newSource, newBuffers) ==
    IF GetExtension(fileName) = OggExt
    THEN StartStream(OpenStream(w, content), newSource, newBuffers)
    ELSE TraceLog(w, "WARNING", "Music extension not recognized")

\* Start music playing (open stream)
PlayMusicStream(w, fileName, content, newSource, newBuffers) ==
    IF GetExtension(fileName) = OggExt
    THEN StartOrWarn(OpenStream(w, content), newSource, newBuffers)
    ELSE TraceLog(w, "WARNING", "Music extension not recognized")

\* Pause music playing
PauseMusicStream(w) ==
    alSourcePause(w, w.currentMusic.source)

\* Check if music is playing; `state` is not initialised, so it keeps an
\* arbitrary value when alGetSourcei fails
MusicIsPlaying(w, garbage) ==
    LET st == alGetSourcei(w, w.currentMusic.source, "AL_SOURCE_STATE", garbage)
    IN  [st.w EXCEPT !.ret = (st.value = "playing")]

\* Set volume for music
SetMusicVolume(w) ==
    alSourcef(w, w.currentMusic.source, "AL_GAIN")

\* stb_vorbis_stream_length_in_seconds: samples over sample rate
stb_vorbis_stream_length_in_seconds(w) ==
    [w |-> Call(w, "stb_vorbis_stream_length_in_seconds", w.vorbis.open),
     value |-> [samples |-> w.vorbis.frames, perSecond |-> w.vorbis.rate]]

\* what a decoder call returned; a decoder that is closed or was never
\* opened returns anything
DecoderValue(l, garbage) ==
    [l.w EXCEPT !.ret = IF l.w.vorbis.open THEN l.value ELSE garbage]

\* Get current music time length (in seconds)
GetMusicTimeLength(w, garbage) ==
    DecoderValue(stb_vorbis_stream_length_in_seconds(w),
                 [samples |-> garbage, perSecond |-> 1])

\* GetMusicTimePlayed, lines 661-667: l is what
\* stb_vorbis_stream_length_in_samples returned (anything when the decoder
\* is closed or was never opened); the seconds are samples over samples per
\* second
SecondsPlayed(l, garbage) ==
    [l.w EXCEPT !.ret =
        [samples |-> (IF l.w.vorbis.open THEN l.value ELSE garbage)
                         * l.w.currentMusic.channels
                        - l.w.currentMusic.totalSamplesLeft,
         perSecond |-> l.w.currentMusic.sampleRate * l.w.currentMusic.channels]]

\* Get current music time played (in seconds)
GetMusicTimePlayed(w, garbage) ==
    SecondsPlayed(stb_vorbis_stream_length_in_samples(w), garbage)

\* UpdateMusicStream, lines 753-756: rewind, reset totalSamplesLeft, refill
RestartAndRefill(w, buffer) ==
    BufferMusicStream(SetTotalSamplesLeft(stb_vorbis_seek_start(w)), buffer)

\* restart that does not rewind the decoder
RestartAndRefill_NoSeek(w, buffer) ==
    BufferMusicStream(SetTotalSamplesLeft(w), buffer)

\* UpdateMusicStream, lines 748-758: if no more data to stream, restart
\* music (if loop); b is what the first BufferMusicStream returned
RestartIfExhausted(b, buffer) ==
    IF (~b.active) /\ b.w.currentMusic.loop
    THEN RestartAndRefill(b.w, buffer)
    ELSE b

RestartIfExhausted_NoSeek(b, buffer) ==
    IF (~b.active) /\ b.w.currentMusic.loop
    THEN RestartAndRefill_NoSeek(b.w, buffer)
    ELSE b

\* RefillBuffer that restarts without rewinding the decoder
RefillBuffer_NoSeek(w, buffer) ==
    RestartIfExhausted_NoSeek(BufferMusicStream(w, buffer), buffer)

\* RefillBuffer that never restarts the stream
RefillBuffer_NoLoop(w, buffer) ==
    BufferMusicStream(w, buffer)

\* UpdateMusicStream, lines 745-758: refill the buffer
RefillBuffer(w, buffer) ==
    RestartIfExhausted(BufferMusicStream(w, buffer), buffer)

\* UpdateMusicStream, line 763: e is what alGetError returned
WarnOnError(e) ==
    IF e.error
    THEN TraceLog(e.w, "WARNING", "Ogg playing, error buffering data...")
    ELSE e.w

\* Requeue that leaves the refilled buffer out of the queue
Requeue_Dropped(w, buffer) ==
    WarnOnError(alGetError(w))

\* UpdateMusicStream, lines 760-763: add refilled buffer to queue again
Requeue(w, buffer) ==
    WarnOnError(alGetError(alSourceQueueBuffers(w, w.currentMusic.source, <<buffer>>)))

\* UpdateMusicStream, lines 740-766: the while (processed > 0) loop; u is
\* what alSourceUnqueueBuffers returned, r what the refill returned
RECURSIVE UpdateLoop(_, _, _, _)
RECURSIVE RefillAndRequeue(_, _)
RECURSIVE RequeueAndContinue(_, _, _)
RequeueAndContinue(r, buffer, processed) ==
    UpdateLoop(Requeue(r.w, buffer), processed - 1, buffer, r.active)

RefillAndRequeue(u, processed) ==
    RequeueAndContinue(RefillBuffer(u.w, u.buffer), u.buffer, processed)

UpdateLoop(w, processed, buffer, active) ==
    IF processed > 0
    THEN RefillAndRequeue(alSourceUnqueueBuffers(w, w.currentMusic.source, buffer),
                          processed)
    ELSE [w |-> w, active |-> active]

\* ResumePlaying that reads the state and never restarts the source
ResumePlaying_Never(w, garbage, active) ==
    alGetSourcei(w, w.currentMusic.source, "AL_SOURCE_STATE", garbage).w

\* UpdateMusicStream, lines 768-771: `state` is not initialised, so it keeps
\* an arbitrary value when alGetSourcei fails
ResumePlaying(w, garbage, active) ==
    LET st == alGetSourcei(w, w.currentMusic.source, "AL_SOURCE_STATE", garbage)
    IN  IF (st.value # "playing") /\ active
        THEN alSourcePlay(st.w, w.currentMusic.source)
        ELSE st.w

\* UpdateMusicStream, line 773
StopIfInactive(w, active) ==
    IF ~active THEN StopMusicStream(w) ELSE w

\* UpdateMusicStream, lines 738-766: p is what alGetSourcei returned for
\* AL_BUFFERS_PROCESSED; buffer = 0 and active = true before the loop
RefillProcessed(p) ==
    UpdateLoop(p.w, p.value, 0, TRUE)

\* UpdateMusicStream, lines 768-773: l is the world and `active` after the loop
FinishUpdate(l, garbage) ==
    StopIfInactive(ResumePlaying(l.w, garbage, l.active), l.active)

\* UpdateMusicStream without the musicEnabled test
UpdateMusicStream_Unguarded(w, garbage) ==
    FinishUpdate(
        RefillProcessed(
            alGetSourcei(w, w.currentMusic.source, "AL_BUFFERS_PROCESSED", 0)),
        garbage)

\* Update (re-fill) music buffers if data already processed
UpdateMusicStream(w, garbage) ==
    IF w.musicEnabled
    THEN FinishUpdate(
             RefillProcessed(
                 alGetSourcei(w, w.currentMusic.source, "AL_BUFFERS_PROCESSED", 0)),
             garbage)
    ELSE w

\* Initialize audio device and context
InitAudioDevice(w) ==
    LET w1 == Call(Call(Call(w, "alcOpenDevice", TRUE), "alcCreateContext", TRUE),
                   "alcMakeContextCurrent", TRUE)
        w2 == [w1 EXCEPT !.alContext = TRUE, !.alError = FALSE,
                         !.alSources = EmptyFn, !.alBuffers = EmptyFn]
        w3 == TraceLog(w2, "INFO", "Audio device and context initialized")
    IN  Call(Call(Call(w3, "alListener3f", TRUE), "alListener3f", TRUE),
             "alListener3f", TRUE)

\* CloseAudioDevice, lines 253-262: the context's sources and the device's
\* buffers go with them
CloseContext(w) ==
    [Call(Call(Call(Call(
          IF w.alContext THEN w
          ELSE TraceLog(w, "WARNING", "Could not get current audio context for closing"),
          "alcGetContextsDevice", w.alContext),
          "alcMakeContextCurrent", TRUE),
          "alcDestroyContext", w.alContext),
          "alcCloseDevice", w.alContext)
     EXCEPT !.alContext = FALSE, !.alError = FALSE,
            !.alSources = EmptyFn, !.alBuffers = EmptyFn]

\* Close the audio device for the current context, and destroys the context
CloseAudioDevice(w) ==
    CloseContext(Call(StopMusicStream(w), "alcGetCurrentContext", TRUE))

----------------------------------------------------------------------------
(* Sound loading: the resource file (rRES) reader *)

\* character codes of the letters the loaders test
Ascii(c) ==
    CASE c = "r" -> 114 [] c = "R" -> 82 [] c = "E" -> 69 [] c = "S" -> 83
      [] c = "I" -> 73  [] c = "F" -> 70 [] OTHER -> 63

\* little-endian bytes of a 16-bit and of a 32-bit value
LE16(n) ==
    <<n % 256, (n \div 256) % 256>>

LE32(n) ==
    <<n % 256, (n \div 256) % 256, (n \div 65536) % 256, (n \div 16777216) % 256>>

\* a short read from two bytes (signed)
S16(b) ==
    IF b[1] + 256 * b[2] >= 32768 THEN b[1] + 256 * b[2] - 65536
    ELSE b[1] + 256 * b[2]

\* the parameter bytes that follow the info header of a record: 6 for an
\* IMAGE (0), 6 for a SOUND (1: sample rate, bits per sample, channels,
\* reserved), 5 for a MODEL (2), none for TEXT (3) and RAW (4)
ParamBytes(type) ==
    CASE type = 0 -> <<1, 1, 1, 1, 1, 1>>
      [] type = 1 -> LE16(22050) \o LE16(16) \o <<1, 0>>
      [] type = 2 -> <<1, 1, 1, 1, 1>>
      [] OTHER -> << >>

\* sizeof(ResInfoHeader): id (2 bytes), type (1), comp (1), size (4), srcSize (4)
InfoHeaderBytes(rec) ==
    LE16(rec.id) \o <<rec.type, 2>> \o LE32(rec.size) \o LE32(rec.size)

InfoHeaderSizeof ==
    Len(InfoHeaderBytes([id |-> 0, type |-> 0, size |-> 0]))

InfoHeaderId(h) ==
    h[1] + 256 * h[2]

InfoHeaderType(h) ==
    h[3]

InfoHeaderSize(h) ==
    h[5] + 256 * h[6] + 65536 * h[7] + 16777216 * h[8]

\* one record of a resource file: info header, parameters, data
RecordBytes(rec) ==
    InfoHeaderBytes(rec) \o ParamBytes(rec.type) \o [i \in 1..rec.size |-> 7]

RECURSIVE RecordsBytes(_)
RecordsBytes(recs) ==
    IF recs = << >> THEN << >>
    ELSE RecordBytes(Head(recs)) \o RecordsBytes(Tail(recs))

\* the bytes of a resource file: identifier, version, reserved byte, number
\* of records, records
RresBytes(file) ==
    [i \in 1..4 |-> Ascii(file.id[i])] \o <<file.version, 0>>
        \o LE16(Len(file.records)) \o RecordsBytes(file.records)

\* fread(ptr, n, 1, file) at offset pos: the bytes the file still has are
\* read, what is missing at the end of the file leaves *ptr as it was
Available(bytes, pos, n) ==
    IF pos >= Len(bytes) THEN 0 ELSE Min(n, Len(bytes) - pos)

freadValue(bytes, pos, n, old) ==
    SubSeq(bytes, pos + 1, pos + Available(bytes, pos, n))
        \o SubSeq(old, Available(bytes, pos, n) + 1, n)

freadPos(bytes, pos, n) ==
    pos + Available(bytes, pos, n)

\* fseek(file, offset, SEEK_CUR)
fseek(pos, offset) ==
    pos + offset

NoteRead(w, what, at, next) ==
    [w EXCEPT !.reads = Append(@, [what |-> what, at |-> at, next |-> next])]

\* alGenSources(1, &source) and alGenBuffers(1, &buffer) of the sound loaders
alGenSources_Sound(w, name) ==
    IF w.alContext /\ name \notin DOMAIN w.alSources
    THEN Call([w EXCEPT !.alSources = With(@, name,
                   [state |-> "initial", queue |-> << >>, processed |-> 0])],
              "alGenSources", TRUE)
    ELSE AlFail(w, "alGenSources")

alGenBuffers_Sound(w, name) ==
    IF w.alContext /\ name \notin DOMAIN w.alBuffers
    THEN Call([w EXCEPT !.alBuffers = With(@, name, << >>)], "alGenBuffers", TRUE)
    ELSE AlFail(w, "alGenBuffers")

\* alSourcei: AL_BUFFER attaches the buffer to the source, AL_LOOPING sets a flag
alSourcei(w, s, param, value) ==
    IF SourceOk(w, s) /\ (param = "AL_BUFFER" => BufferOk(w, value))
    THEN Call([w EXCEPT !.alSources[s].queue =
                            IF param = "AL_BUFFER" THEN <<value>> ELSE @],
              param, TRUE)
    ELSE AlFail(w, param)

\* lines 299-318 and 422-441: create an audio source, convert the loaded data
\* to an OpenAL buffer and attach it
AttachSoundBuffer(w, source, buffer, data) ==
    alSourcei(alBufferData(alGenBuffers_Sound(w, buffer), buffer, data),
              source, "AL_BUFFER", buffer)

SetSoundSourceDefaults(w, source) ==
    alSourcei(alSourcef(alSourcef(alSourcef(alSourcef(w,
        source, "AL_PITCH"), source, "AL_GAIN"), source, "AL_POSITION"),
        source, "AL_VELOCITY"), source, "AL_LOOPING", FALSE)

\* Unload Wave data: free(wave.data)
UnloadWave(w, data) ==
    Call(w, "free", data.valid)

\* lines 299-327 and 422-449: source and buffer are the names the audio
\* library hands out; msg is the message logged
CreateSound(w, source, buffer, data, msg) ==
    [TraceLog(
         UnloadWave(
             AttachSoundBuffer(
                 SetSoundSourceDefaults(alGenSources_Sound(w, source), source),
                 source, buffer, data),
             data),
         "INFO", msg)
     EXCEPT !.ret = [source |-> source, buffer |-> buffer]]

\* DecompressData (utils.c): the sound data of a record
DecompressData(data) ==
    [null |-> FALSE, valid |-> TRUE, bytes |-> data]

\* lines 286-297 and 407-419: the OpenAL format is worked out by looking at the number
\* of channels and the bits per sample
SoundFormat(wave) ==
    IF wave.channels = 1
    THEN IF wave.bitsPerSample = 8 THEN "AL_FORMAT_MONO8"
         ELSE IF wave.bitsPerSample = 16 THEN "AL_FORMAT_MONO16" ELSE "0"
    ELSE IF wave.channels = 2
    THEN IF wave.bitsPerSample = 8 THEN "AL_FORMAT_STEREO8"
         ELSE IF wave.bitsPerSample = 16 THEN "AL_FORMAT_STEREO16" ELSE "0"
    ELSE "0"

\* lines 393-419: the Wave of a SOUND record; params are the six bytes read
\* into sampleRate, bps, channels and reserved, data the bytes that follow
ResourceWave(params, data) ==
    [DecompressData(data) EXCEPT
        !.bytes = <<SoundFormat([channels |-> params[5],
                                 bitsPerSample |-> S16(SubSeq(params, 3, 4))])>> \o @]

\* lines 383-449: the record is the SOUND asked for; f holds the locals
\* (the world, the file position, infoHeader, found, and what the stack
\* held where sampleRate, bps, channels and reserved are)
ReadSoundRecord(f, bytes) ==
    [f EXCEPT
        !.pos = freadPos(bytes, freadPos(bytes, f.pos, 6),
                         InfoHeaderSize(f.infoHeader)),
        !.w = CreateSound(f.w, LowestFree(DOMAIN f.w.alSources),
                          LowestFree(DOMAIN f.w.alBuffers),
                          ResourceWave(
                              freadValue(bytes, f.pos, 6, [i \in 1..6 |-> f.stack]),
                              freadValue(bytes, freadPos(bytes, f.pos, 6),
                                         Available(bytes, freadPos(bytes, f.pos, 6),
                                                   InfoHeaderSize(f.infoHeader)),
                                         << >>)),
                          "Sound loaded successfully from resource")]

\* lines 373-455: the record has the id asked for
ReadFoundRecord(f, bytes) ==
    IF InfoHeaderType(f.infoHeader) = 1
    THEN ReadSoundRecord([f EXCEPT !.found = TRUE], bytes)
    ELSE [f EXCEPT !.found = TRUE,
                   !.w = TraceLog(@, "WARNING",
                       "Required resource do not seem to be a valid SOUND resource")]

\* lines 459-467: depending on type, skip the right amount of parameters
ParamSkip(type) ==
    CASE type = 0 -> 6
      [] type = 1 -> 6
      [] type = 2 -> 5
      [] OTHER -> 0

\* lines 456-471: jump the parameters and the data to read the next infoHeader
SkipRecord(f) ==
    [f EXCEPT !.pos = fseek(fseek(f.pos, ParamSkip(InfoHeaderType(f.infoHeader))),
                            InfoHeaderSize(f.infoHeader))]

\* lines 373-471: f is the locals after the fread of infoHeader
ProcessRecord(f, bytes, resId) ==
    IF InfoHeaderId(f.infoHeader) = resId
    THEN ReadFoundRecord(f, bytes)
    ELSE SkipRecord(f)

\* line 371: fread(&infoHeader, sizeof(ResInfoHeader), 1, rresFile)
ReadInfoHeader(f, bytes) ==
    [f EXCEPT !.infoHeader = freadValue(bytes, f.pos, InfoHeaderSizeof, @),
              !.pos = freadPos(bytes, f.pos, InfoHeaderSizeof)]

\* the header read at offset `at` and the offset the file is left at once
\* the record has been processed
NoteRecord(f, at) ==
    [f EXCEPT !.w = NoteRead(@, "infoHeader", at, f.pos)]

\* lines 369-472: for (int i = 0; i < numRes; i++)
RECURSIVE ScanLoop(_, _, _, _, _)
ScanLoop(f, bytes, resId, i, numRes) ==
    IF i < numRes
    THEN ScanLoop(NoteRecord(ProcessRecord(ReadInfoHeader(f, bytes), bytes, resId),
                             f.pos),
                  bytes, resId, i + 1, numRes)
    ELSE f

\* lines 366-472: read number of resources embedded, then the records; the
\* file is at offset 6 after the identifier, the version and the reserved
\* byte.  infoHeader is read before it is used.
ScanRecords(w, bytes, resId, garbage) ==
    ScanLoop([w |-> NoteRead(w, "numRes", 6, freadPos(bytes, 6, 2)),
              pos |-> freadPos(bytes, 6, 2),
              infoHeader |-> [i \in 1..InfoHeaderSizeof |-> 0],
              found |-> FALSE,
              stack |-> garbage.stack],
             bytes, resId, 0, S16(freadValue(bytes, 6, 2, <<0, 0>>)))

\* line 360: (id[0] != 'r') && (id[1] != 'R') && (id[2] != 'E') && (id[3] != 'S')
IdentifierRejected(id) ==
    /\ id[1] # Ascii("r")
    /\ id[2] # Ascii("R")
    /\ id[3] # Ascii("E")
    /\ id[4] # Ascii("S")

\* lines 352-475: the file is open
ReadRres(w, bytes, resId, garbage) ==
    IF IdentifierRejected(SubSeq(bytes, 1, 4))
    THEN [w |-> Call(TraceLog(w, "WARNING", "This is not a valid raylib resource file"),
                     "fclose", TRUE),
          found |-> FALSE]
    ELSE [ScanRecords(w, bytes, resId, garbage) EXCEPT !.w = Call(@, "fclose", TRUE)]

\* line 478
WarnNotFound(f) ==
    IF ~f.found
    THEN TraceLog(f.w, "WARNING",
                  "Required resource id could not be found in the raylib resource file")
    ELSE f.w

\* Load sound to memory from rRES file (raylib Resource); `sound` is not
\* initialised, so what is returned is arbitrary unless a sound was created
\* (garbage.sound), and so are the parameters of a SOUND record that the
\* file ends before (garbage.stack)
LoadSoundFromRES(w, file, resId, garbage) ==
    WarnNotFound(
        IF file.kind # "rres"
        THEN [w |-> TraceLog(Call([w EXCEPT !.ret = garbage.sound], "fopen", FALSE),
                             "WARNING", "Could not open raylib resource file"),
              found |-> FALSE]
        ELSE ReadRres(Call([w EXCEPT !.ret = garbage.sound], "fopen", TRUE),
                      RresBytes(file), resId, garbage))

----------------------------------------------------------------------------
(* Sound loading: LoadSound, LoadWAV, LoadOGG *)

WavExt ==
    <<"w", "a", "v">>

\* a pointer that was never set: NULL or anything else
NullData ==
    [null |-> TRUE, valid |-> FALSE, bytes |-> << >>]

GarbageData ==
    [null |-> FALSE, valid |-> FALSE, bytes |-> << >>]

\* lines 821-823: check for RIFF and WAVE tags
BadRiffHeader(file) ==
    \/ (\/ file.chunkID[1] # "R" \/ file.chunkID[2] # "I"
        \/ file.chunkID[3] # "F" \/ file.chunkID[4] # "F")
    \/ (\/ file.format[1] # "W" \/ file.format[2] # "A"
        \/ file.format[3] # "V" \/ file.format[4] # "E")

\* lines 833-834: check for fmt tag
BadWaveFormat(file) ==
    \/ file.fmtID[1] # "f" \/ file.fmtID[2] # "m"
    \/ file.fmtID[3] # "t" \/ file.fmtID[4] # " "

\* lines 847-848: check for data tag
BadWaveData(file) ==
    \/ file.dataID[1] # "d" \/ file.dataID[2] # "a"
    \/ file.dataID[3] # "t" \/ file.dataID[4] # "a"

\* lines 855-866: the sound data is read and the Wave is filled in
ReadWaveData(w, file) ==
    [w |-> TraceLog(w, "INFO", "Wave file loaded successfully"),
     wave |-> [data |-> [null |-> FALSE, valid |-> TRUE,
                         bytes |-> [i \in 1..file.dataSize |-> 7]],
               dataSize |-> file.dataSize, sampleRate |-> file.sampleRate,
               channels |-> file.numChannels,
               bitsPerSample |-> file.bitsPerSample]]

\* lines 818-869: the file is open; `wave` is not initialised, so it is
\* returned with arbitrary contents unless the three headers are valid
ReadWav(w, file, garbage) ==
    IF BadRiffHeader(file)
    THEN [w |-> TraceLog(w, "WARNING", "Invalid RIFF or WAVE Header"), wave |-> garbage]
    ELSE IF BadWaveFormat(file)
    THEN [w |-> TraceLog(w, "WARNING", "Invalid Wave format"), wave |-> garbage]
    ELSE IF BadWaveData(file)
    THEN [w |-> TraceLog(w, "WARNING", "Invalid data header"), wave |-> garbage]
    ELSE ReadWaveData(w, file)

\* Load WAV file into Wave structure
LoadWAV(w, file, garbage) ==
    IF file.kind # "wav"
    THEN [w |-> TraceLog(Call(w, "fopen", FALSE), "WARNING", "Could not open WAV file"),
          wave |-> garbage]
    ELSE [ReadWav(Call(w, "fopen", TRUE), file, garbage) EXCEPT
             !.w = Call(@, "fclose", TRUE)]

\* lines 902: a stream of more than 10 seconds
WarnLongOgg(w, file) ==
    IF file.frames > 10 * file.rate
    THEN TraceLog(w, "WARNING", "Ogg audio lenght is larger than 10 seconds")
    ELSE w

\* Load OGG file into Wave structure: the whole stream is decoded with a
\* decoder of its own
LoadOGG(w, file) ==
    [w |-> Call(Call(WarnLongOgg(
                    Call(Call(Call(w, "stb_vorbis_open_filename", TRUE),
                              "stb_vorbis_get_info", TRUE),
                         "stb_vorbis_stream_length_in_samples", TRUE),
                    file),
                "stb_vorbis_get_samples_short_interleaved", TRUE),
                "stb_vorbis_close", TRUE),
     wave |-> [data |-> [null |-> FALSE, valid |-> TRUE,
                         bytes |-> [i \in 1..(file.frames * file.channels) |-> i - 1]],
               dataSize |-> file.frames * file.channels * 2,
               sampleRate |-> file.rate, channels |-> file.channels,
               bitsPerSample |-> 16]]

\* lines 280-282: audio file loading
LoadWave(w, fileName, file, garbage) ==
    IF GetExtension(fileName) = WavExt THEN LoadWAV(w, file, garbage)
    ELSE IF GetExtension(fileName) = OggExt THEN LoadOGG(w, file)
    ELSE [w |-> TraceLog(w, "WARNING", "Sound extension not recognized"),
          wave |-> garbage]

\* lines 284-330: l is the world and the Wave after the loading; `sound` is
\* not initialised, so what is returned is arbitrary unless a sound was
\* created
SoundFromWave(l, garbageSound) ==
    IF ~l.wave.data.null
    THEN TraceLog(
             CreateSound(l.w, LowestFree(DOMAIN l.w.alSources),
                         LowestFree(DOMAIN l.w.alBuffers),
                         [l.wave.data EXCEPT !.bytes = <<SoundFormat(l.wave)>> \o @],
                         "Sound file loaded successfully"),
             "INFO", "Sample rate - Channels")
    ELSE [l.w EXCEPT !.ret = garbageSound]

\* Load sound to memory
LoadSound(w, fileName, file, garbage, garbageSound) ==
    SoundFromWave(LoadWave(w, fileName, file, garbage), garbageSound)

----------------------------------------------------------------------------
(* The state machine *)

\* what an uninitialised ALenum can compare as: AL_PLAYING or anything else
GarbageStates ==
    {"playing", "garbage"}

NoArgs ==
    [fileName |-> << >>, content |-> NoFile]

\* no sound file on disk
NoDisk ==
    [kind |-> "none"]

\* no fill loop has run
NoFillRun ==
    [channels |-> 0, returns |-> << >>, trace |-> << >>, size |-> 0, done |-> FALSE]

\* the static Music record is zero-initialised
Init ==
    /\ musicEnabled = FALSE
    /\ currentMusic = [stream |-> "NULL", buffers |-> <<0, 0>>, source |-> 0,
                       format |-> "0", channels |-> 0, sampleRate |-> 0,
                       totalSamplesLeft |-> 0, loop |-> FALSE]
    /\ alContext = FALSE
    /\ alSources = EmptyFn
    /\ alBuffers = EmptyFn
    /\ alError = FALSE
    /\ vorbis = ClosedVorbis
    /\ openDecoders = 0
    /\ calls = << >>
    /\ log = << >>
    /\ ret = "void"
    /\ lastCall = "none"
    /\ lastFile = NoArgs
    /\ disk = NoDisk
    /\ reads = << >>
    /\ fillRun = NoFillRun

\* the world at the entry of an operation
Entry ==
    [World EXCEPT !.calls = << >>, !.log = << >>, !.ret = "void", !.reads = << >>]

BecomesWith(w, file) ==
    /\ musicEnabled' = w.musicEnabled
    /\ currentMusic' = w.currentMusic
    /\ alContext' = w.alContext
    /\ alSources' = w.alSources
    /\ alBuffers' = w.alBuffers
    /\ alError' = w.alError
    /\ vorbis' = w.vorbis
    /\ openDecoders' = w.openDecoders
    /\ calls' = w.calls
    /\ log' = w.log
    /\ ret' = w.ret
    /\ reads' = w.reads
    /\ lastFile' = file
    /\ UNCHANGED <<disk, fillRun>>

Becomes(w) ==
    BecomesWith(w, NoArgs)

\* the caller opens the device only while it is closed
DoInitAudioDevice ==
    /\ ~alContext
    /\ lastCall' = "InitAudioDevice"
    /\ Becomes(InitAudioDevice(Entry))

DoCloseAudioDevice ==
    /\ lastCall' = "CloseAudioDevice"
    /\ Becomes(CloseAudioDevice(Entry))

\* the names the audio library can hand out once the current music has been
\* released: any free source name, and the two lowest free buffer names
FreeNames(w) ==
    LET b1 == LowestFree(DOMAIN w.alBuffers)
        b2 == LowestFree(DOMAIN w.alBuffers \cup {b1})
    IN  [newSource : SourceNames \ DOMAIN w.alSources, newBuffers : {<<b1, b2>>}]

\* the inputs of PlayMusicStream: a file name, what the decoder finds under
\* it (looked at only for an .ogg name) and the names handed out (used only
\* when the stream opens)
PlayInputs(w) ==
    {[fileName |-> f, content |-> NoFile,
      names |-> [newSource |-> 0, newBuffers |-> <<0, 0>>]] : f \in FileNames}
    \cup
    {[fileName |-> f, content |-> c, names |-> n] :
         f \in {x \in FileNames : GetExtension(x) = OggExt},
         c \in FileContents \ {NoFile},
         n \in FreeNames(w)}

\* the caller starts music on an initialised audio device (audio objects
\* need the context InitAudioDevice makes current)
DoPlayMusicStream ==
    /\ alContext
    /\ lastCall' = "PlayMusicStream"
    /\ \E in \in PlayInputs(StopMusicStream(Entry)) :
        BecomesWith(PlayMusicStream(Entry, in.fileName, in.content,
                                    in.names.newSource, in.names.newBuffers),
                    [fileName |-> in.fileName, content |-> in.content])

DoStopMusicStream ==
    /\ lastCall' = "StopMusicStream"
    /\ Becomes(StopMusicStream(Entry))

DoPauseMusicStream ==
    /\ lastCall' = "PauseMusicStream"
    /\ Becomes(PauseMusicStream(Entry))

DoMusicIsPlaying ==
    /\ lastCall' = "MusicIsPlaying"
    /\ \E garbage \in GarbageStates : Becomes(MusicIsPlaying(Entry, garbage))

DoUpdateMusicStream ==
    /\ lastCall' = "UpdateMusicStream"
    /\ \E garbage \in GarbageStates : Becomes(UpdateMusicStream(Entry, garbage))

\* what a decoder that is not open returns for a length
GarbageLengths ==
    {0, 1}

DoSetMusicVolume ==
    /\ lastCall' = "SetMusicVolume"
    /\ Becomes(SetMusicVolume(Entry))

DoGetMusicTimeLength ==
    /\ lastCall' = "GetMusicTimeLength"
    /\ \E garbage \in GarbageLengths : Becomes(GetMusicTimeLength(Entry, garbage))

DoGetMusicTimePlayed ==
    /\ lastCall' = "GetMusicTimePlayed"
    /\ \E garbage \in GarbageLengths : Becomes(GetMusicTimePlayed(Entry, garbage))

\* the audio device finishes the buffer a playing source is on; the source
\* stops when it runs out of queued buffers
AudioDevicePlays ==
    /\ alContext
    /\ lastCall' = "AudioDevice"
    /\ \E s \in DOMAIN alSources :
        /\ alSources[s].state = "playing"
        /\ LET src  == alSources[s]
               done == Min(src.processed + 1, Len(src.queue))
           IN  Becomes([Entry EXCEPT !.alSources[s] =
                            [src EXCEPT !.processed = done,
                                        !.state = IF done = Len(src.queue)
                                                  THEN "stopped" ELSE "playing"]])

Next ==
    \/ DoInitAudioDevice
    \/ DoCloseAudioDevice
    \/ DoPlayMusicStream
    \/ DoStopMusicStream
    \/ DoPauseMusicStream
    \/ DoMusicIsPlaying
    \/ DoUpdateMusicStream
    \/ DoSetMusicVolume
    \/ DoGetMusicTimeLength
    \/ DoGetMusicTimePlayed
    \/ AudioDevicePlays

Spec ==
    Init /\ [][Next]_vars

----------------------------------------------------------------------------
(* The sound loaders: one sound file is on disk, the audio device is
   initialised and sounds are loaded from the file *)

\* records in a resource file at most
MaxRecords ==
    2

\* sounds loaded at most
MaxSounds ==
    1

\* resource types: IMAGE, SOUND, MODEL, TEXT, RAW
ResTypes ==
    0..4

RecordIds ==
    {1, 2}

DataSizes ==
    {0, 2}

ResRecords ==
    [id : RecordIds, type : ResTypes, size : DataSizes]

\* "rRES" and identifiers that differ from it in some or in all characters
RresIdentifiers ==
    { <<"r", "R", "E", "S">>, <<"r", "I", "F", "F">>, <<"R", "I", "F", "F">> }

RresFiles ==
    UNION {[kind : {"rres"}, id : RresIdentifiers, version : {1},
            records : [1..n -> ResRecords]] : n \in 0..MaxRecords}

\* WAV files by the tags of their three headers
WavFiles ==
    [kind : {"wav"},
     chunkID : {<<"R", "I", "F", "F">>, <<"R", "I", "F", "X">>},
     format : {<<"W", "A", "V", "E">>, <<"A", "V", "I", " ">>},
     fmtID : {<<"f", "m", "t", " ">>, <<"f", "a", "c", "t">>},
     dataID : {<<"d", "a", "t", "a">>, <<"L", "I", "S", "T">>},
     numChannels : {2}, bitsPerSample : {16}, sampleRate : SampleRates,
     dataSize : {4}]

OggFiles ==
    [kind : {"ogg"}, channels : ChannelCounts, frames : {1}, rate : SampleRates]

Disks ==
    {NoDisk} \cup RresFiles \cup WavFiles \cup OggFiles

\* names the caller passes to LoadSound: "a.wav", "a.ogg", "a.txt"
SoundFileNames ==
    { <<"a", ".", "w", "a", "v">>, <<"a", ".", "o", "g", "g">>,
      <<"a", ".", "t", "x", "t">> }

\* what an uninitialised Sound, Wave or local can hold
GarbageNames ==
    {0, 1}

GarbageSounds ==
    [source : GarbageNames, buffer : {0}]

GarbageWaves ==
    [data : {NullData, GarbageData}, dataSize : {0}, sampleRate : {0},
     channels : {0, 2}, bitsPerSample : {16}]

GarbageStacks ==
    [sound : GarbageSounds, stack : {0, 1}]

InitSound ==
    /\ musicEnabled = FALSE
    /\ currentMusic = [stream |-> "NULL", buffers |-> <<0, 0>>, source |-> 0,
                       format |-> "0", channels |-> 0, sampleRate |-> 0,
                       totalSamplesLeft |-> 0, loop |-> FALSE]
    /\ alContext = FALSE
    /\ alSources = EmptyFn
    /\ alBuffers = EmptyFn
    /\ alError = FALSE
    /\ vorbis = ClosedVorbis
    /\ openDecoders = 0
    /\ calls = << >>
    /\ log = << >>
    /\ ret = "void"
    /\ lastCall = "none"
    /\ lastFile = NoArgs
    /\ disk \in Disks
    /\ reads = << >>
    /\ fillRun = NoFillRun

\* the caller loads sounds on an initialised audio device; an .ogg name is
\* passed only when the file is an Ogg stream
DoLoadSound ==
    /\ alContext
    /\ Cardinality(DOMAIN alSources) < MaxSounds
    /\ lastCall' = "LoadSound"
    /\ \E fileName \in SoundFileNames, garbage \in GarbageWaves,
          garbageSound \in GarbageSounds :
        /\ GetExtension(fileName) = OggExt => disk.kind = "ogg"
        /\ BecomesWith(LoadSound(Entry, fileName, disk, garbage, garbageSound),
                       [fileName |-> fileName, content |-> disk])

DoLoadSoundFromRES ==
    /\ alContext
    /\ Cardinality(DOMAIN alSources) < MaxSounds
    /\ lastCall' = "LoadSoundFromRES"
    /\ \E resId \in {1}, garbage \in GarbageStacks :
        BecomesWith(LoadSoundFromRES(Entry, disk, resId, garbage),
                    [fileName |-> <<"a", ".", "r", "r", "e", "s">>,
                     content |-> disk, resId |-> resId])

SoundNext ==
    \/ DoInitAudioDevice
    \/ DoLoadSound
    \/ DoLoadSoundFromRES

SpecSound ==
    InitSound /\ [][SoundNext]_vars

----------------------------------------------------------------------------
(* The fill loop of BufferMusicStream on its own: the channel count and the
   values the decoder returns are given, the loop runs once *)

\* channels of a stream at most
MaxChannels ==
    3

\* values the decoder returns before the stream ends, at most
MaxReturns ==
    3

\* what the decoder returns: frames stored per channel
DecoderReturns ==
    UNION {[1..n -> 0..MUSIC_BUFFER_SIZE] : n \in 0..MaxReturns}

InitFill ==
    /\ musicEnabled = FALSE
    /\ currentMusic = [stream |-> "NULL", buffers |-> <<0, 0>>, source |-> 0,
                       format |-> "0", channels |-> 0, sampleRate |-> 0,
                       totalSamplesLeft |-> 0, loop |-> FALSE]
    /\ alContext = FALSE
    /\ alSources = EmptyFn
    /\ alBuffers = EmptyFn
    /\ alError = FALSE
    /\ vorbis = ClosedVorbis
    /\ openDecoders = 0
    /\ calls = << >>
    /\ log = << >>
    /\ ret = "void"
    /\ lastCall = "none"
    /\ lastFile = NoArgs
    /\ disk = NoDisk
    /\ reads = << >>
    /\ fillRun \in [channels : 1..MaxChannels, returns : DecoderReturns,
                     trace : {<< >>}, size : {0}, done : {FALSE}]

RunFillLoop ==
    /\ ~fillRun.done
    /\ fillRun' = [fillRun EXCEPT
                      !.size = FillTrace(fillRun.channels, fillRun.returns, 0, << >>).size,
                      !.trace = FillTrace(fillRun.channels, fillRun.returns, 0, << >>).trace,
                      !.done = TRUE]
    /\ UNCHANGED <<musicEnabled, currentMusic, alContext, alSources, alBuffers,
                   alError, vorbis, openDecoders, calls, log, ret, lastCall,
                   lastFile, disk, reads>>

FillNext ==
    RunFillLoop

SpecFill ==
    InitFill /\ [][FillNext]_vars

----------------------------------------------------------------------------
(* Vocabulary of the properties *)

MusicSource ==
    alSources[currentMusic.source]

MusicQueue ==
    MusicSource.queue

\* successful calls of f among the library calls cs
CallsOf(cs, f) ==
    {i \in 1..Len(cs) : cs[i].f = f /\ cs[i].ok}

CountCalls(cs, f) ==
    Cardinality(CallsOf(cs, f))

Logged(lg, msg) ==
    {i \in 1..Len(lg) : lg[i].level = "WARNING" /\ lg[i].msg = msg}

\* the first chunk of a stream: as many whole frames as fit in the buffer
FirstChunk(v) ==
    LET n == Min(MUSIC_BUFFER_SIZE \div v.channels, v.frames)
    IN  [i \in 1..(n * v.channels) |-> i - 1]

\* the iterations of the refill loop (1 = first buffer unqueued) in which
\* the decoder was rewound
RewoundIterations(cs) ==
    {1 + Cardinality({j \in CallsOf(cs, "alSourceQueueBuffers") : j < i}) :
         i \in CallsOf(cs, "stb_vorbis_seek_start")}

Last(q) ==
    q[Len(q)]

----------------------------------------------------------------------------
(* C1: while music is enabled exactly MUSIC_STREAM_BUFFERS buffers, the two
   of currentMusic, are queued on the music source; an UpdateMusicStream
   that leaves music enabled unqueues no more buffers than the source
   reported processed and re-queues each of them on the same source. *)
C1_TwoBuffersQueued ==
    /\ [](musicEnabled =>
            /\ alContext /\ currentMusic.source \in DOMAIN alSources
            /\ Len(MusicQueue) = MUSIC_STREAM_BUFFERS
            /\ SeqRange(MusicQueue) = SeqRange(currentMusic.buffers))
    /\ [][(lastCall' = "UpdateMusicStream" /\ musicEnabled /\ musicEnabled') =>
            /\ CountCalls(calls', "alSourceUnqueueBuffers") <= MusicSource.processed
            /\ CountCalls(calls', "alSourceQueueBuffers")
                 = CountCalls(calls', "alSourceUnqueueBuffers")
            /\ currentMusic'.source = currentMusic.source
            /\ Len(MusicQueue') = MUSIC_STREAM_BUFFERS]_vars

\* an update that recovered and re-queued both buffers
C1_Witness ==
    /\ lastCall = "UpdateMusicStream" /\ musicEnabled
    /\ CountCalls(calls, "alSourceUnqueueBuffers") = 2
    /\ CountCalls(calls, "alSourceQueueBuffers") = 2
    /\ Len(MusicQueue) = 2

(* C2: for a stream with at least one sample, the queued buffers, in queue
   order, hold consecutive chunks of the decoded stream: every buffer holds
   a run of consecutive samples, each buffer starts where the one queued
   before it ended (the sample after the last being the first again), the
   decoder stands where the buffer queued last ended, and right after
   PlayMusicStream buffers[0] starts at the first sample and buffers[1]
   follows it. *)
C2_ConsecutiveChunks ==
    (musicEnabled /\ vorbis.frames > 0) =>
        LET total   == vorbis.frames * vorbis.channels
            data(i) == alBuffers[MusicQueue[i]]
        IN  /\ \A i \in 1..Len(MusicQueue) :
                 /\ data(i) # << >>
                 /\ \A j \in 1..(Len(data(i)) - 1) : data(i)[j + 1] = data(i)[j] + 1
            /\ \A i \in 1..(Len(MusicQueue) - 1) :
                 data(i + 1) # << >> /\ data(i) # << >> =>
                     data(i + 1)[1] = (Last(data(i)) + 1) % total
            /\ Last(MusicQueue) \in DOMAIN alBuffers
                 /\ alBuffers[Last(MusicQueue)] # << >> =>
                     (Last(alBuffers[Last(MusicQueue)]) + 1) % total
                        = (vorbis.pos * vorbis.channels) % total
            /\ (lastCall = "PlayMusicStream"
                /\ GetExtension(lastFile.fileName) = OggExt) =>
                 /\ MusicQueue = currentMusic.buffers
                 /\ alBuffers[currentMusic.buffers[1]] # << >> =>
                        alBuffers[currentMusic.buffers[1]][1] = 0

(* C3: an UpdateMusicStream of looping music on a stream that has samples
   rewinds the decoder each time a refill finds the stream exhausted; the
   buffer being refilled then holds the first chunk of the stream and is
   re-queued, and totalSamplesLeft is the full length minus what has been
   decoded since the rewind.  If the stream was already exhausted at the
   call and a buffer was processed, the first buffer unqueued is such a
   buffer. *)
C3_RestartWhenExhausted ==
    [][(lastCall' = "UpdateMusicStream" /\ musicEnabled /\ currentMusic.loop
        /\ vorbis.frames > 0) =>
          LET n    == CountCalls(calls', "alSourceUnqueueBuffers")
              rew  == RewoundIterations(calls')
              q    == MusicQueue'
          IN  /\ musicEnabled'
              /\ Cardinality(Logged(log', "No more data obtained from stream"))
                   = CountCalls(calls', "stb_vorbis_seek_start")
              /\ (vorbis.pos = vorbis.frames /\ MusicSource.processed > 0) =>
                     /\ 1 \in rew
                     /\ q[Len(q) - n + 1] = Head(MusicQueue)
              /\ \A k \in rew : alBuffers'[q[Len(q) - n + k]] = FirstChunk(vorbis)
              /\ rew # {} =>
                   currentMusic'.totalSamplesLeft
                     = (vorbis'.frames - vorbis'.pos) * vorbis'.channels]_vars

\* an update rewound the decoder and the buffer queued last holds the
\* first chunk again
C3_Witness ==
    /\ lastCall = "UpdateMusicStream" /\ musicEnabled
    /\ CountCalls(calls, "stb_vorbis_seek_start") = 1
    /\ vorbis.frames * vorbis.channels > MUSIC_BUFFER_SIZE
    /\ alBuffers[Last(MusicQueue)] = FirstChunk(vorbis)

(* C4: once music is enabled on a stream that has at least one sample, the
   loop flag is set and only StopMusicStream, CloseAudioDevice or
   PlayMusicStream can disable the music; no UpdateMusicStream does. *)
C4_UpdateNeverDisables ==
    /\ [](musicEnabled => currentMusic.loop)
    /\ [][(musicEnabled /\ vorbis.frames > 0
           /\ lastCall' \notin {"StopMusicStream", "CloseAudioDevice", "PlayMusicStream"})
          => (musicEnabled' /\ currentMusic'.loop)]_vars

\* an update found the stream exhausted and music is still enabled
C4_Witness ==
    /\ lastCall = "UpdateMusicStream" /\ musicEnabled
    /\ Logged(log, "No more data obtained from stream") # {}

(* C5: when UpdateMusicStream returns with music enabled the music source is
   playing; called on a source that stopped because both buffers were
   consumed, it unqueues both, refills and re-queues them and restarts the
   source. *)
C5_PlayingAfterUpdate ==
    /\ []((lastCall = "UpdateMusicStream" /\ musicEnabled) =>
            /\ currentMusic.source \in DOMAIN alSources
            /\ MusicSource.state = "playing")
    /\ [][(lastCall' = "UpdateMusicStream" /\ musicEnabled /\ musicEnabled'
           /\ MusicSource.state = "stopped"
           /\ MusicSource.processed = MUSIC_STREAM_BUFFERS) =>
            /\ CountCalls(calls', "alSourceUnqueueBuffers") = MUSIC_STREAM_BUFFERS
            /\ CountCalls(calls', "alBufferData") = MUSIC_STREAM_BUFFERS
            /\ CountCalls(calls', "alSourceQueueBuffers") = MUSIC_STREAM_BUFFERS
            /\ CountCalls(calls', "alSourcePlay") = 1
            /\ MusicSource'.state = "playing"
            /\ MusicSource'.processed = 0]_vars

\* an update restarted a source that had run out of buffers
C5_Witness ==
    /\ lastCall = "UpdateMusicStream" /\ musicEnabled
    /\ CountCalls(calls, "alSourceUnqueueBuffers") = 2
    /\ CountCalls(calls, "alSourcePlay") = 1
    /\ MusicSource.state = "playing"

(* C6: one music stream at a time: with music enabled there is one live
   source (the music source), two live buffers (the music buffers) and an
   open decoder, the only one; with music disabled there is none of them.  A
   PlayMusicStream that replaces music closes the old decoder before it
   opens the new stream. *)
C6_SingleMusic ==
    /\ musicEnabled =>
         /\ DOMAIN alSources = {currentMusic.source}
         /\ DOMAIN alBuffers = SeqRange(currentMusic.buffers)
         /\ Cardinality(DOMAIN alBuffers) = MUSIC_STREAM_BUFFERS
         /\ vorbis.open /\ currentMusic.stream # "NULL"
         /\ openDecoders = 1
    /\ ~musicEnabled =>
         /\ DOMAIN alSources = {}
         /\ DOMAIN alBuffers = {}
         /\ ~vorbis.open
         /\ openDecoders = 0
    /\ lastCall = "PlayMusicStream" =>
         \A i \in CallsOf(calls, "stb_vorbis_close"),
            j \in CallsOf(calls, "stb_vorbis_open_filename") : i < j

\* music was playing and PlayMusicStream replaced it with a new stream
C6_Witness ==
    /\ lastCall = "PlayMusicStream" /\ musicEnabled
    /\ CountCalls(calls, "stb_vorbis_close") = 1
    /\ CountCalls(calls, "alGenSources") = 1

(* C7: StopMusicStream called with music enabled deletes the source, the
   two buffers and closes the decoder, each once and each on a live handle,
   and disables music; called with music disabled it makes no library call
   and changes nothing. *)
C7_StopIdempotent ==
    [][lastCall' = "StopMusicStream" =>
         /\ ~musicEnabled'
         /\ \A i \in 1..Len(calls') : calls'[i].ok
         /\ musicEnabled =>
              /\ CountCalls(calls', "alDeleteSources") = 1
              /\ CountCalls(calls', "alDeleteBuffers") = 1
              /\ CountCalls(calls', "stb_vorbis_close") = 1
              /\ DOMAIN alSources' = {} /\ DOMAIN alBuffers' = {} /\ ~vorbis'.open
         /\ ~musicEnabled =>
              /\ calls' = << >>
              /\ UNCHANGED <<currentMusic, alContext, alSources, alBuffers,
                             alError, vorbis, openDecoders>>]_vars

\* StopMusicStream called again after music was started and stopped
C7_Witness ==
    /\ lastCall = "StopMusicStream" /\ calls = << >> /\ ~musicEnabled
    /\ currentMusic.source # 0 /\ currentMusic.stream # "NULL"

(* C8: after PauseMusicStream is called while music is enabled the music
   source is not playing, and a paused source stays not playing across
   UpdateMusicStream, MusicIsPlaying and the audio device's progress. *)
C8_PauseHolds ==
    [][/\ (lastCall' = "PauseMusicStream" /\ musicEnabled) =>
            MusicSource'.state # "playing"
       /\ (musicEnabled /\ MusicSource.state = "paused"
           /\ lastCall' \in {"UpdateMusicStream", "MusicIsPlaying", "AudioDevice"}) =>
            (musicEnabled' => MusicSource'.state # "playing")]_vars

(* C9: PlayMusicStream with a file name whose extension is not "ogg" logs a
   warning, makes no library call and changes neither musicEnabled, the
   current-music record, the sources, the buffers nor the decoder. *)
C9_OtherExtensionNoEffect ==
    [][(lastCall' = "PlayMusicStream" /\ GetExtension(lastFile'.fileName) # OggExt) =>
         /\ Logged(log', "Music extension not recognized") # {}
         /\ calls' = << >>
         /\ UNCHANGED <<musicEnabled, currentMusic, alContext, alSources,
                        alBuffers, alError, vorbis, openDecoders>>]_vars

\* PlayMusicStream of a name without the ogg extension while music plays
C9_Witness ==
    /\ lastCall = "PlayMusicStream" /\ GetExtension(lastFile.fileName) # OggExt
    /\ musicEnabled /\ MusicSource.state = "playing"

(* C10: PlayMusicStream with an .ogg name the decoder cannot open logs a
   warning and ends with music disabled, no source, no buffer and no open
   decoder; it creates no source or buffer, and music that was enabled
   before the call has been released. *)
C10_OpenFailureStopsMusic ==
    [][(lastCall' = "PlayMusicStream" /\ GetExtension(lastFile'.fileName) = OggExt
        /\ ~lastFile'.content.exists) =>
         /\ Logged(log', "Could not open ogg audio file") # {}
         /\ ~musicEnabled'
         /\ DOMAIN alSources' = {} /\ DOMAIN alBuffers' = {} /\ ~vorbis'.open
         /\ \A i \in 1..Len(calls') :
                calls'[i].f \notin {"alGenSources", "alGenBuffers"}
         /\ musicEnabled =>
              /\ CountCalls(calls', "alDeleteSources") = 1
              /\ CountCalls(calls', "alDeleteBuffers") = 1
              /\ CountCalls(calls', "stb_vorbis_close") = 1]_vars

\* a failed open that ended music that was enabled
C10_Witness ==
    /\ lastCall = "PlayMusicStream" /\ GetExtension(lastFile.fileName) = OggExt
    /\ ~lastFile.content.exists
    /\ CountCalls(calls, "stb_vorbis_close") = 1 /\ ~musicEnabled

(* C11: UpdateMusicStream called while music is disabled (before any
   PlayMusicStream, after StopMusicStream, after a PlayMusicStream that
   could not open its file) makes no call on the audio library or the
   decoder, logs nothing and changes neither musicEnabled, the current-music
   record, the sources, the buffers nor the decoder. *)
C11_UpdateWhileDisabled ==
    [][(lastCall' = "UpdateMusicStream" /\ ~musicEnabled) =>
         /\ calls' = << >>
         /\ log' = << >>
         /\ UNCHANGED <<musicEnabled, currentMusic, alContext, alSources,
                        alBuffers, alError, vorbis, openDecoders>>]_vars

\* an update after music was started and a later PlayMusicStream failed to
\* open its file
C11_Witness ==
    /\ lastCall = "UpdateMusicStream" /\ ~musicEnabled /\ calls = << >>
    /\ currentMusic.source # 0 /\ currentMusic.stream = "NULL"

\* the offset of the first byte of record i of a resource file (of the end
\* of the file for i = number of records + 1)
RECURSIVE RecordStart(_, _)
RecordStart(file, i) ==
    IF i = 1 THEN 8
    ELSE RecordStart(file, i - 1) + Len(RecordBytes(file.records[i - 1]))

\* the reads of record headers among the file reads rs
HeaderReads(rs) ==
    SelectSeq(rs, LAMBDA r : r.what = "infoHeader")

RresIdentifier ==
    <<"r", "R", "E", "S">>

(* C12: LoadSoundFromRES on a file it can open reads the number of records
   only when the 4-byte identifier is 'r','R','E','S'; with any other
   identifier it logs that the file is not a valid resource file, reads
   neither the number of records nor a record and creates no source and no
   buffer. *)
C12_OnlyExactIdentifier ==
    (lastCall = "LoadSoundFromRES" /\ lastFile.content.kind = "rres") =>
        IF lastFile.content.id = RresIdentifier
        THEN /\ Logged(log, "This is not a valid raylib resource file") = {}
             /\ Len(reads) > 0
        ELSE /\ Logged(log, "This is not a valid raylib resource file") # {}
             /\ reads = << >>
             /\ \A i \in 1..Len(calls) :
                    calls[i].f \notin {"alGenSources", "alGenBuffers"}
             /\ DOMAIN alSources = {} /\ DOMAIN alBuffers = {}

(* C13: LoadSoundFromRES on a resource file (identifier 'r','R','E','S')
   reads one info header per record, each at the first byte of its record:
   once a record that another follows is processed (skipped or consumed),
   the file is at the first byte of the next record. *)
C13_ScanStaysAligned ==
    (/\ lastCall = "LoadSoundFromRES" /\ lastFile.content.kind = "rres"
     /\ lastFile.content.id = RresIdentifier) =>
        /\ Len(HeaderReads(reads)) = Len(lastFile.content.records)
        /\ \A i \in 1..Len(HeaderReads(reads)) :
              HeaderReads(reads)[i].at = RecordStart(lastFile.content, i)
        /\ \A i \in 1..(Len(HeaderReads(reads)) - 1) :
              HeaderReads(reads)[i].next = RecordStart(lastFile.content, i + 1)

\* the samples taken from the decoder since the stream was opened or rewound
SamplesDecoded ==
    vorbis.pos * vorbis.channels

(* C14: after a PlayMusicStream that started music and after every
   UpdateMusicStream that leaves music enabled, totalSamplesLeft is the
   stream's total sample count (length in samples times channels) minus the
   samples decoded since the stream was opened or rewound, and the samples
   GetMusicTimePlayed computes its result from are the samples decoded. *)
C14_SamplesLeftTracksDecoder ==
    /\ (/\ musicEnabled
        /\ \/ lastCall = "UpdateMusicStream"
           \/ lastCall = "PlayMusicStream" /\ GetExtension(lastFile.fileName) = OggExt) =>
           currentMusic.totalSamplesLeft
               = vorbis.frames * vorbis.channels - SamplesDecoded
    /\ (musicEnabled /\ lastCall = "GetMusicTimePlayed") =>
           ret.samples = SamplesDecoded

\* the file LoadSound was given holds wave data it can read: a WAV file with
\* valid RIFF/WAVE, fmt and data headers, or an Ogg stream
WaveDataRead ==
    \/ /\ GetExtension(lastFile.fileName) = WavExt
       /\ lastFile.content.kind = "wav"
       /\ lastFile.content.chunkID = <<"R", "I", "F", "F">>
       /\ lastFile.content.format = <<"W", "A", "V", "E">>
       /\ lastFile.content.fmtID = <<"f", "m", "t", " ">>
       /\ lastFile.content.dataID = <<"d", "a", "t", "a">>
    \/ /\ GetExtension(lastFile.fileName) = OggExt
       /\ lastFile.content.kind = "ogg"

(* C15: LoadSound of a file that cannot be loaded (extension neither wav
   nor ogg, WAV file that cannot be opened, WAV file with an invalid
   RIFF/WAVE, fmt or data header) logs a warning and creates no source and
   no buffer; a source and a buffer exist after LoadSound only when wave
   data was read from the file. *)
C15_FailedLoadCreatesNothing ==
    (lastCall = "LoadSound" /\ ~WaveDataRead) =>
        /\ \E i \in 1..Len(log) : log[i].level = "WARNING"
        /\ \A i \in 1..Len(calls) :
               calls[i].f \notin {"alGenSources", "alGenBuffers"}
        /\ DOMAIN alSources = {} /\ DOMAIN alBuffers = {}

\* the names of the library calls cs, in order
CallNames(cs) ==
    [i \in 1..Len(cs) |-> cs[i].f]

\* the calls that release music whose source has n buffers queued
ReleaseCalls(n) ==
    <<"alSourceStop", "AL_BUFFERS_QUEUED">>
        \o [i \in 1..n |-> "alSourceUnqueueBuffers"]
        \o <<"alDeleteSources", "alDeleteBuffers", "stb_vorbis_close">>

(* C16: StopMusicStream and CloseAudioDevice called with music enabled stop
   the source, unqueue every buffer queued on it, delete the source, delete
   the two buffers and close the decoder, in this order and each on a live
   handle, so that no buffer is queued when it is deleted; StopMusicStream
   makes no other call, and CloseAudioDevice gets, destroys and closes the
   context and the device only after them. *)
C16_ReleaseOrder ==
    [][(lastCall' \in {"StopMusicStream", "CloseAudioDevice"} /\ musicEnabled) =>
         /\ Len(calls') >= Len(ReleaseCalls(Len(MusicQueue)))
         /\ SubSeq(CallNames(calls'), 1, Len(ReleaseCalls(Len(MusicQueue))))
              = ReleaseCalls(Len(MusicQueue))
         /\ \A i \in 1..Len(calls') : calls'[i].ok
         /\ Len(MusicQueue) = MUSIC_STREAM_BUFFERS
         /\ lastCall' = "StopMusicStream" =>
              Len(calls') = Len(ReleaseCalls(Len(MusicQueue)))
         /\ lastCall' = "CloseAudioDevice" =>
              SubSeq(CallNames(calls'), Len(ReleaseCalls(Len(MusicQueue))) + 1,
                     Len(calls'))
                = <<"alcGetCurrentContext", "alcGetContextsDevice",
                    "alcMakeContextCurrent", "alcDestroyContext", "alcCloseDevice">>
         /\ ~musicEnabled' /\ DOMAIN alBuffers' = {} /\ DOMAIN alSources' = {}]_vars

\* CloseAudioDevice released music that was playing
C16_Witness ==
    /\ lastCall = "CloseAudioDevice" /\ ~alContext
    /\ CountCalls(calls, "alSourceUnqueueBuffers") = MUSIC_STREAM_BUFFERS
    /\ CountCalls(calls, "stb_vorbis_close") = 1
    /\ CountCalls(calls, "alcDestroyContext") = 1

\* the public music operations that use the handles without starting or
\* stopping music
MusicOperations ==
    {"PauseMusicStream", "MusicIsPlaying", "SetMusicVolume", "GetMusicTimeLength",
     "GetMusicTimePlayed", "UpdateMusicStream"}

(* C17: a public music operation called while music is disabled (the
   handles were released by StopMusicStream or never created) passes no
   handle to the audio library or the decoder: it makes no library call. *)
C17_HandlesOnlyWhileEnabled ==
    [][(lastCall' \in MusicOperations /\ ~musicEnabled) => calls' = << >>]_vars

\* every value the decoder returned respects the maximum it was asked for:
\* the frames it stored, of `channels` samples each, fit in the shorts asked
RespectsRequests(run) ==
    \A i \in 1..Len(run.trace) :
        run.trace[i].got >= 0
        /\ run.trace[i].got * run.channels <= run.trace[i].asked

(* C18: in the fill loop of BufferMusicStream, when every value the decoder
   returns respects the maximum asked for, the size of the data in pcm is
   between 0 and MUSIC_BUFFER_SIZE at every iteration and at the end, the
   decoder is asked each time for MUSIC_BUFFER_SIZE - size samples, what it
   stores at pcm + size ends inside the array, and the loop ends with the
   array full or on a return of 0. *)
C18_FillStaysInArray ==
    (fillRun.done /\ RespectsRequests(fillRun)) =>
        /\ \A i \in 1..Len(fillRun.trace) :
              /\ 0 <= fillRun.trace[i].size
              /\ fillRun.trace[i].size < MUSIC_BUFFER_SIZE
              /\ fillRun.trace[i].asked = MUSIC_BUFFER_SIZE - fillRun.trace[i].size
              /\ fillRun.trace[i].size + fillRun.trace[i].got * fillRun.channels
                    <= MUSIC_BUFFER_SIZE
        /\ 0 <= fillRun.size /\ fillRun.size <= MUSIC_BUFFER_SIZE
        /\ \/ fillRun.size = MUSIC_BUFFER_SIZE
           \/ /\ fillRun.trace # << >>
              /\ Last(fillRun.trace).got = 0

\* two frames of two channels, decoded one at a time, filled the array
C18_Witness ==
    /\ fillRun.done /\ RespectsRequests(fillRun)
    /\ fillRun.channels = 2 /\ Len(fillRun.trace) = 2
    /\ fillRun.size = MUSIC_BUFFER_SIZE

====
